---- MODULE Spec2Model ----
(***************************************************************************)
(* Model of the streaming JSON extraction of llm-plugin-utils:             *)
(*   - parse_json_from_stream (src/api/parsing.rs), the incremental        *)
(*     extractor, one character per step;                                  *)
(*   - ChatRequest::stream_json (src/api/chat.rs), the loop that reads     *)
(*     the event source and drives the extractor.                          *)
(* Text is a sequence of one-character strings.  Option values are         *)
(* sequences of length at most one: None is << >>, Some(x) is <<x>>.       *)
(***************************************************************************)
EXTENDS Integers, Sequences, FiniteSets, TLC

\* ------------------------------------------------------------------ bounds
\* Most characters a session feeds to the extractor.
MaxInput == 5
\* Most events a session reads from the event source.
MaxEvents == 4

\* ------------------------------------------------------------- characters
LBrace == "{"
RBrace == "}"
\* The backtick; the string stands for the one character U+0060.
Tick == "tick"
Quote == "\""
Backslash == "\\"
Letter == "a"

\* How far below and above its limit the length of a Manifest field goes.
Slack == 2
\* Most two-byte characters in a Manifest field.
MaxWide == 1
\* Most characters of the calls in the split specification.
MaxSplitInput == 5
\* Most characters of the one call in the fence specification.
MaxFenceInput == 10
\* Most characters of the one call in the string specification.
MaxStringInput == 6

\* The characters the source may send in the consumer specification.
Alphabet == {LBrace, RBrace, Tick, Letter}
\* The characters of the fence specification and of the string specification.
FenceAlphabet == {Tick, LBrace, Letter}
StringAlphabet == {LBrace, RBrace, Quote, Backslash, Letter}
\* The characters of the split specification: every kind the extractor tells
\* apart.
SplitAlphabet == {LBrace, RBrace, Tick, Quote, Backslash, Letter}

None == << >>
Some(x) == <<x>>

\* ------------------------------------------------------------- JsonState
Idle == [tag |-> "Idle"]

Active(data, num_brackets, in_string, escaped) ==
    [tag |-> "Active", data |-> data, num_brackets |-> num_brackets,
     in_string |-> in_string, escaped |-> escaped]

MaybeIgnore(tick_count) == [tag |-> "MaybeIgnore", tick_count |-> tick_count]

Ignore(num_ticks, tick_count) ==
    [tag |-> "Ignore", num_ticks |-> num_ticks, tick_count |-> tick_count]

\* The outcome of one iteration of the loop over input.chars(): the next
\* state, the value assigned to completed_json in this iteration (None when
\* it is not assigned) and the text pushed to filtered_delta.
Outcome(st, completed, pushed) ==
    [state |-> st, completed |-> completed, pushed |-> pushed]

\* IdleStep that opens a capture at depth 0.
IdleStepDepthZero(ch) ==
    IF ch = LBrace THEN Outcome(Active(<<LBrace>>, 0, FALSE, FALSE), None, << >>)
    ELSE IF ch = Tick THEN Outcome(MaybeIgnore(1), None, <<ch>>)
    ELSE Outcome(Idle, None, <<ch>>)

\* IdleStep that does not pass the opening backtick through.
IdleStepTickSwallowed(ch) ==
    IF ch = LBrace THEN Outcome(Active(<<LBrace>>, 1, FALSE, FALSE), None, << >>)
    ELSE IF ch = Tick THEN Outcome(MaybeIgnore(1), None, << >>)
    ELSE Outcome(Idle, None, <<ch>>)

\* JsonState::Idle => match ch
IdleStep(ch) ==
    IF ch = LBrace THEN Outcome(Active(<<LBrace>>, 1, FALSE, FALSE), None, << >>)
    ELSE IF ch = Tick THEN Outcome(MaybeIgnore(1), None, <<ch>>)
    ELSE Outcome(Idle, None, <<ch>>)

\* ActiveStep whose '\\' arm lacks the guard `if !escaped`.
ActiveStepStickyEscape(js, ch) ==
    IF ch = LBrace /\ ~js.in_string
    THEN Outcome(Active(Append(js.data, ch), js.num_brackets + 1,
                        js.in_string, js.escaped), None, << >>)
    ELSE IF ch = RBrace /\ ~js.in_string
    THEN IF js.num_brackets - 1 = 0
         THEN Outcome(Idle, Some(Append(js.data, ch)), << >>)
         ELSE Outcome(Active(Append(js.data, ch), js.num_brackets - 1,
                             js.in_string, js.escaped), None, << >>)
    ELSE IF ch = Quote /\ js.in_string /\ ~js.escaped
    THEN Outcome(Active(Append(js.data, ch), js.num_brackets, FALSE, js.escaped),
                 None, << >>)
    ELSE IF ch = Quote /\ ~js.in_string /\ ~js.escaped
    THEN Outcome(Active(Append(js.data, ch), js.num_brackets, TRUE, js.escaped),
                 None, << >>)
    ELSE IF ch = Backslash
    THEN Outcome(Active(js.data, js.num_brackets, js.in_string, TRUE), None, << >>)
    ELSE Outcome(Active(Append(js.data, ch), js.num_brackets, js.in_string, FALSE),
                 None, << >>)

\* ActiveStep whose closing-quote arm lacks the guard `!escaped`.
ActiveStepQuoteUnescaped(js, ch) ==
    IF ch = LBrace /\ ~js.in_string
    THEN Outcome(Active(Append(js.data, ch), js.num_brackets + 1,
                        js.in_string, js.escaped), None, << >>)
    ELSE IF ch = RBrace /\ ~js.in_string
    THEN IF js.num_brackets - 1 = 0
         THEN Outcome(Idle, Some(Append(js.data, ch)), << >>)
         ELSE Outcome(Active(Append(js.data, ch), js.num_brackets - 1,
                             js.in_string, js.escaped), None, << >>)
    ELSE IF ch = Quote /\ js.in_string
    THEN Outcome(Active(Append(js.data, ch), js.num_brackets, FALSE, js.escaped),
                 None, << >>)
    ELSE IF ch = Quote /\ ~js.in_string /\ ~js.escaped
    THEN Outcome(Active(Append(js.data, ch), js.num_brackets, TRUE, js.escaped),
                 None, << >>)
    ELSE IF ch = Backslash /\ ~js.escaped
    THEN Outcome(Active(js.data, js.num_brackets, js.in_string, TRUE), None, << >>)
    ELSE Outcome(Active(Append(js.data, ch), js.num_brackets, js.in_string, FALSE),
                 None, << >>)

\* ActiveStep that does not count a nested '{'.
ActiveStepFlat(js, ch) ==
    IF ch = LBrace /\ ~js.in_string
    THEN Outcome(Active(Append(js.data, ch), js.num_brackets,
                        js.in_string, js.escaped), None, << >>)
    ELSE IF ch = RBrace /\ ~js.in_string
    THEN IF js.num_brackets - 1 = 0
         THEN Outcome(Idle, Some(Append(js.data, ch)), << >>)
         ELSE Outcome(Active(Append(js.data, ch), js.num_brackets - 1,
                             js.in_string, js.escaped), None, << >>)
    ELSE IF ch = Quote /\ js.in_string /\ ~js.escaped
    THEN Outcome(Active(Append(js.data, ch), js.num_brackets, FALSE, js.escaped),
                 None, << >>)
    ELSE IF ch = Quote /\ ~js.in_string /\ ~js.escaped
    THEN Outcome(Active(Append(js.data, ch), js.num_brackets, TRUE, js.escaped),
                 None, << >>)
    ELSE IF ch = Backslash /\ ~js.escaped
    THEN Outcome(Active(js.data, js.num_brackets, js.in_string, TRUE), None, << >>)
    ELSE Outcome(Active(Append(js.data, ch), js.num_brackets, js.in_string, FALSE),
                 None, << >>)

\* ActiveStep with the guard `if !in_string` missing on the '}' arm.
ActiveStepBraceInString(js, ch) ==
    IF ch = LBrace /\ ~js.in_string
    THEN Outcome(Active(Append(js.data, ch), js.num_brackets + 1,
                        js.in_string, js.escaped), None, << >>)
    ELSE IF ch = RBrace
    THEN IF js.num_brackets - 1 = 0
         THEN Outcome(Idle, Some(Append(js.data, ch)), << >>)
         ELSE Outcome(Active(Append(js.data, ch), js.num_brackets - 1,
                             js.in_string, js.escaped), None, << >>)
    ELSE IF ch = Quote /\ js.in_string /\ ~js.escaped
    THEN Outcome(Active(Append(js.data, ch), js.num_brackets, FALSE, js.escaped),
                 None, << >>)
    ELSE IF ch = Quote /\ ~js.in_string /\ ~js.escaped
    THEN Outcome(Active(Append(js.data, ch), js.num_brackets, TRUE, js.escaped),
                 None, << >>)
    ELSE IF ch = Backslash /\ ~js.escaped
    THEN Outcome(Active(js.data, js.num_brackets, js.in_string, TRUE), None, << >>)
    ELSE Outcome(Active(Append(js.data, ch), js.num_brackets, js.in_string, FALSE),
                 None, << >>)

\* JsonState::Active { data, num_brackets, in_string, escaped } => match ch
\* The arms are tried in the order of the source.
ActiveStep(js, ch) ==
    IF ch = LBrace /\ ~js.in_string
    THEN Outcome(Active(Append(js.data, ch), js.num_brackets + 1,
                        js.in_string, js.escaped), None, << >>)
    ELSE IF ch = RBrace /\ ~js.in_string
    THEN IF js.num_brackets - 1 = 0
         THEN Outcome(Idle, Some(Append(js.data, ch)), << >>)
         ELSE Outcome(Active(Append(js.data, ch), js.num_brackets - 1,
                             js.in_string, js.escaped), None, << >>)
    ELSE IF ch = Quote /\ js.in_string /\ ~js.escaped
    THEN Outcome(Active(Append(js.data, ch), js.num_brackets, FALSE, js.escaped),
                 None, << >>)
    ELSE IF ch = Quote /\ ~js.in_string /\ ~js.escaped
    THEN Outcome(Active(Append(js.data, ch), js.num_brackets, TRUE, js.escaped),
                 None, << >>)
    ELSE IF ch = Backslash /\ ~js.escaped
    THEN Outcome(Active(js.data, js.num_brackets, js.in_string, TRUE), None, << >>)
    ELSE Outcome(Active(Append(js.data, ch), js.num_brackets, js.in_string, FALSE),
                 None, << >>)

\* JsonState::MaybeIgnore { tick_count }
MaybeIgnoreStep(js, ch) ==
    IF ch = Tick
    THEN Outcome(MaybeIgnore(js.tick_count + 1), None, <<ch>>)
    ELSE Outcome(Ignore(js.tick_count, 0), None, <<ch>>)

\* IgnoreStep that compares the count with the fence width before counting
\* the backtick it has just read.
IgnoreStepLateClose(js, ch) ==
    IF ch = Tick
    THEN IF js.tick_count = js.num_ticks
         THEN Outcome(Idle, None, <<ch>>)
         ELSE Outcome(Ignore(js.num_ticks, js.tick_count + 1), None, <<ch>>)
    ELSE Outcome(Ignore(js.num_ticks, 0), None, <<ch>>)

\* IgnoreStep that keeps the count of backticks across other characters.
IgnoreStepNoReset(js, ch) ==
    IF ch = Tick
    THEN IF js.tick_count + 1 = js.num_ticks
         THEN Outcome(Idle, None, <<ch>>)
         ELSE Outcome(Ignore(js.num_ticks, js.tick_count + 1), None, <<ch>>)
    ELSE Outcome(Ignore(js.num_ticks, js.tick_count), None, <<ch>>)

\* JsonState::Ignore { num_ticks, tick_count }
IgnoreStep(js, ch) ==
    IF ch = Tick
    THEN IF js.tick_count + 1 = js.num_ticks
         THEN Outcome(Idle, None, <<ch>>)
         ELSE Outcome(Ignore(js.num_ticks, js.tick_count + 1), None, <<ch>>)
    ELSE Outcome(Ignore(js.num_ticks, 0), None, <<ch>>)

\* The body of `for ch in input.chars()`: json_state = match json_state {..}
StepChar(js, ch) ==
    CASE js.tag = "Idle" -> IdleStep(ch)
      [] js.tag = "Active" -> ActiveStep(js, ch)
      [] js.tag = "MaybeIgnore" -> MaybeIgnoreStep(js, ch)
      [] js.tag = "Ignore" -> IgnoreStep(js, ch)

\* parse_json_from_stream(input, json_state) as a function: the loop folded
\* over the whole input, from completed_json = None, filtered_delta = "".
RECURSIVE ParseLoop(_, _, _, _)
ParseLoop(input, js, completed_json, filtered_delta) ==
    IF input = << >>
    THEN [state |-> js, json |-> completed_json, filtered |-> filtered_delta]
    ELSE LET o == StepChar(js, Head(input))
         IN ParseLoop(Tail(input), o.state,
                      IF o.completed # None THEN o.completed ELSE completed_json,
                      filtered_delta \o o.pushed)

\* parse_json_from_stream that forgets a pending escape between two calls.
ParseJsonFromStreamUnescaped(input, js) ==
    ParseLoop(input,
              IF js.tag = "Active" THEN [js EXCEPT !.escaped = FALSE] ELSE js,
              None, << >>)

ParseJsonFromStream(input, js) == ParseLoop(input, js, None, << >>)

\* ---------------------------------------------------------------- state
VARIABLES
    stream,           \* ChatRequest.stream
    pc,               \* "start", "next" (at es.next().await), "scan" (inside
                      \* parse_json_from_stream), "done" (stream_json returned)
    es,               \* the EventSource: opened, events read, close() calls
    state,            \* the JsonState threaded through the calls
    string_response,  \* the antecedent accumulated so far
    json_response,    \* Option<String>
    completed_json,   \* local of the running parse_json_from_stream call
    filtered_delta,   \* local of the running parse_json_from_stream call
    ret,              \* what stream_json returned
    event,            \* history: the kind of the event read last
    input,            \* history: every character fed to the extractor
    builder,          \* the Manifest builder: the fields set so far
    knn               \* the running knn_search call: inputs, loop position, heap

vars == <<stream, pc, es, state, string_response, json_response,
          completed_json, filtered_delta, ret, event, input, builder, knn>>

\* ------------------------------------------------------------- Manifest
MAX_NAME_FOR_HUMAN == 20
MAX_NAME_FOR_MODEL == 50
MAX_DESCRIPTION_FOR_HUMAN == 100
MAX_DESCRIPTION_FOR_MODEL == 8000

\* The fields of Manifest whose setter goes through test_len.
Fields == {"name_for_human", "name_for_model",
           "description_for_human", "description_for_model"}

\* The `len` each setter passes to test_len.
MaxLen(f) ==
    CASE f = "name_for_human" -> MAX_NAME_FOR_HUMAN
      [] f = "name_for_model" -> MAX_NAME_FOR_MODEL
      [] f = "description_for_human" -> MAX_DESCRIPTION_FOR_HUMAN
      [] f = "description_for_model" -> MAX_DESCRIPTION_FOR_MODEL

\* A string value: `ascii` one-byte characters followed by `wide` two-byte
\* characters.  String::len() counts UTF-8 bytes.
Str(ascii, wide) == [ascii |-> ascii, wide |-> wide]
ByteLen(string) == string.ascii + 2 * string.wide

\* The values a caller may pass for field f: lengths around the limit.
Values(f) ==
    {Str(a, w) : a \in {n \in (MaxLen(f) - Slack)..(MaxLen(f) + Slack) : n >= 0},
                 w \in 0..MaxWide}

\* test_len with `>=` for `>`.
TestLenOffByOne(string, len) ==
    IF ByteLen(string) >= len THEN [panic |-> TRUE]
    ELSE [panic |-> FALSE, value |-> string]

\* test_len(string, iden, len): panics, or returns the string.
TestLen(string, len) ==
    IF ByteLen(string) > len THEN [panic |-> TRUE]
    ELSE [panic |-> FALSE, value |-> string]

\* Manifest::builder(): no field set.  `call` and `arg` are history: the
\* setter called last and its argument.
NewBuilder ==
    [fields |-> [f \in Fields |-> None], panicked |-> FALSE, built |-> FALSE,
     call |-> "builder", arg |-> Str(0, 0)]

\* ------------------------------------------------------------ knn_search
\* The most items of a content, the largest k and the largest coordinate of
\* an embedding.
MaxItems == 3
MaxK == 3
MaxCoord == 1

\* Embeddings (impl Embedding for Vec<f32>), with small whole coordinates,
\* which f32 represents and multiplies exactly.
Vectors == {<<x, y>> : x \in 0..MaxCoord, y \in 0..MaxCoord}
Queries == {<<1, 0>>, <<1, 1>>}
Contents == UNION {[1..n -> Vectors] : n \in 0..MaxItems}

\* a.iter().zip(b.iter()).map(|(a, b)| *a * *b).sum()
RECURSIVE dot_product(_, _)
dot_product(a, b) ==
    IF a = << >> \/ b = << >> THEN 0
    ELSE Head(a) * Head(b) + dot_product(Tail(a), Tail(b))

\* EmbeddingDistance { item, distance }; the item is a reference into the
\* content, told apart by its position there.
EmbeddingDistance(item, distance) == [item |-> item, distance |-> distance]

\* What heap.peek() may show and heap.pop() remove in a BinaryHeap of
\* Reverse(EmbeddingDistance): an entry of least distance.
Peek(heap) == {e \in heap : \A o \in heap : e.distance <= o.distance}

\* No call of knn_search is running.
NoSearch ==
    [query |-> << >>, content |-> << >>, k |-> 0, next |-> 1, heap |-> {},
     status |-> "idle", out |-> << >>]

\* let mut heap = BinaryHeap::with_capacity(k), before the loop
NewSearch(query, content, k) ==
    [query |-> query, content |-> content, k |-> k, next |-> 1, heap |-> {},
     status |-> "running", out |-> << >>]

NoRet == [kind |-> "none"]
Err(cause) == [kind |-> "Err", cause |-> cause]
\* Ok(JsonResponse { antecedent: string_response, json: json_response })
OkResponse(antecedent, json) ==
    [kind |-> "Ok", antecedent |-> antecedent, json |-> json]

Init ==
    /\ stream \in BOOLEAN
    /\ pc = "start"
    /\ es = [opened |-> FALSE, read |-> 0, closed |-> 0]
    /\ state = Idle
    /\ string_response = << >>
    /\ json_response = None
    /\ completed_json = None
    /\ filtered_delta = << >>
    /\ ret = NoRet
    /\ event = "none"
    /\ input = << >>
    /\ builder = NewBuilder
    /\ knn = NoSearch

parserVars == <<state, completed_json, filtered_delta, input>>
resultVars == <<string_response, json_response>>

\* The event source hands over one more event.
Read == [es EXCEPT !.read = @ + 1]
CanRead == pc = "next" /\ es.read < MaxEvents

\* StartRejected with the flag tested after the source is opened.
StartRejectedLate ==
    /\ pc = "start" /\ ~stream
    /\ es' = [es EXCEPT !.opened = TRUE]
    /\ pc' = "done"
    /\ ret' = Err("stream must be set to true")
    /\ UNCHANGED <<knn, builder, stream, event, parserVars, resultVars>>

\* if !self.stream { return Err(..) }
StartRejected ==
    /\ pc = "start" /\ ~stream
    /\ pc' = "done"
    /\ ret' = Err("stream must be set to true")
    /\ UNCHANGED <<knn, builder, stream, es, event, parserVars, resultVars>>

\* state = Idle; es = EventSource::new(client)?; string_response, json_response
StartStreaming ==
    /\ pc = "start" /\ stream
    /\ pc' = "next"
    /\ es' = [es EXCEPT !.opened = TRUE]
    /\ state' = Idle
    /\ string_response' = << >>
    /\ json_response' = None
    /\ UNCHANGED <<knn, builder, stream, completed_json, filtered_delta, ret, event, input>>

\* Ok(Event::Open) => {}
OnOpen ==
    /\ CanRead
    /\ event' = "Open"
    /\ es' = Read
    /\ UNCHANGED <<knn, builder, stream, pc, parserVars, resultVars, ret>>

\* OnDone that hands an unfinished capture over as the json.
OnDonePartial ==
    /\ CanRead
    /\ event' = "Done"
    /\ es' = [Read EXCEPT !.closed = @ + 1]
    /\ pc' = "done"
    /\ ret' = OkResponse(string_response,
                         IF state.tag = "Active" THEN Some(state.data)
                         ELSE json_response)
    /\ UNCHANGED <<knn, builder, stream, parserVars, resultVars>>

\* OnDone that breaks without es.close().
OnDoneUnclosed ==
    /\ CanRead
    /\ event' = "Done"
    /\ es' = Read
    /\ pc' = "done"
    /\ ret' = OkResponse(string_response, json_response)
    /\ UNCHANGED <<knn, builder, stream, parserVars, resultVars>>

\* message.data == "[DONE]": es.close(); break; then Ok(JsonResponse {..})
OnDone ==
    /\ CanRead
    /\ event' = "Done"
    /\ es' = [Read EXCEPT !.closed = @ + 1]
    /\ pc' = "done"
    /\ ret' = OkResponse(string_response, json_response)
    /\ UNCHANGED <<knn, builder, stream, parserVars, resultVars>>

\* OnBadPayload that skips the payload and goes on with the next event.
OnBadPayloadSkipped ==
    /\ CanRead
    /\ event' = "BadPayload"
    /\ es' = Read
    /\ UNCHANGED <<knn, builder, stream, pc, parserVars, resultVars, ret>>

\* serde_json::from_str(&message.data)? fails
OnBadPayload ==
    /\ CanRead
    /\ event' = "BadPayload"
    /\ es' = Read
    /\ pc' = "done"
    /\ ret' = Err("deserialize")
    /\ UNCHANGED <<knn, builder, stream, parserVars, resultVars>>

\* OnNoContent that starts the extractor afresh, as a new delta would.
OnNoContentReset ==
    /\ CanRead
    /\ event' = "NoContent"
    /\ es' = Read
    /\ state' = Idle
    /\ UNCHANGED <<knn, builder, stream, pc, completed_json, filtered_delta, input,
                   resultVars, ret>>

\* stream.delta() is None or is not ChatDelta::Content
OnNoContent ==
    /\ CanRead
    /\ event' = "NoContent"
    /\ es' = Read
    /\ UNCHANGED <<knn, builder, stream, pc, parserVars, resultVars, ret>>

\* OnError that drops the error and goes on with the next event.
OnErrorIgnored ==
    /\ CanRead
    /\ event' = "Error"
    /\ es' = Read
    /\ UNCHANGED <<knn, builder, stream, pc, parserVars, resultVars, ret>>

\* Err(e) => return Err(e.into())
OnError ==
    /\ CanRead
    /\ event' = "Error"
    /\ es' = Read
    /\ pc' = "done"
    /\ ret' = Err("event source")
    /\ UNCHANGED <<knn, builder, stream, parserVars, resultVars>>

\* es.next() yields None: the loop ends and the accumulated result is returned
OnEnd ==
    /\ pc = "next"
    /\ event' = "End"
    /\ pc' = "done"
    /\ ret' = OkResponse(string_response, json_response)
    /\ UNCHANGED <<knn, builder, stream, es, parserVars, resultVars>>

\* AfterParse that records the json and goes on reading.
AfterParseNoBreak(new_state, json, filtered) ==
    /\ state' = new_state
    /\ string_response' = string_response \o filtered
    /\ filtered_delta' = << >>
    /\ completed_json' = json
    /\ json_response' = IF json # None THEN json ELSE json_response
    /\ pc' = "next"
    /\ UNCHANGED <<es, ret>>

\* What the consumer does with (new_state, json, filtered) when the call
\* returns: push filtered, and on Some(json) record it, close and break.
AfterParse(new_state, json, filtered) ==
    /\ state' = new_state
    /\ string_response' = string_response \o filtered
    /\ filtered_delta' = << >>
    /\ completed_json' = json
    /\ IF json # None
       THEN /\ json_response' = json
            /\ es' = [es EXCEPT !.closed = @ + 1]
            /\ pc' = "done"
            /\ ret' = OkResponse(string_response \o filtered, json)
       ELSE /\ pc' = "next"
            /\ UNCHANGED <<json_response, es, ret>>

\* A Message whose delta is ChatDelta::Content(s) with s empty: the call
\* returns (state, None, "") at once.
OnEmptyContent ==
    /\ CanRead
    /\ event' = "Content"
    /\ es' = Read
    /\ UNCHANGED <<knn, builder, stream, pc, parserVars, resultVars, ret>>

\* A Message whose delta is ChatDelta::Content(s), s not empty: the call to
\* parse_json_from_stream(&s, state) starts with fresh locals.  The
\* characters of s are drawn as the loop consumes them (ScanChar).
OnContent ==
    /\ CanRead
    /\ event' = "Content"
    /\ Len(input) < MaxInput
    /\ es' = Read
    /\ pc' = "scan"
    /\ completed_json' = None
    /\ filtered_delta' = << >>
    /\ UNCHANGED <<knn, builder, stream, state, input, resultVars, ret>>

\* One iteration of the loop over the fragment's characters; `last` says the
\* character is the fragment's final one, and then the call returns to the
\* consumer in the same step.
ScanChar(A, max) ==
    /\ pc = "scan"
    /\ \E ch \in A, last \in BOOLEAN :
         LET o == StepChar(state, ch)
             cj == IF o.completed # None THEN o.completed ELSE completed_json
             fd == filtered_delta \o o.pushed
         IN /\ last \/ Len(input) + 1 < max
            /\ input' = Append(input, ch)
            /\ IF last
               THEN AfterParse(o.state, cj, fd)
               ELSE /\ state' = o.state
                    /\ completed_json' = cj
                    /\ filtered_delta' = fd
                    /\ UNCHANGED <<pc, es, resultVars, ret>>
    /\ UNCHANGED <<knn, builder, stream, event>>

Next ==
    \/ StartRejected
    \/ StartStreaming
    \/ OnOpen
    \/ OnDone
    \/ OnBadPayload
    \/ OnNoContent
    \/ OnEmptyContent
    \/ OnError
    \/ OnEnd
    \/ OnContent
    \/ ScanChar(Alphabet, MaxInput)

Spec == Init /\ [][Next]_vars

\* ------------------------------------------------- one call, by characters
\* One call parse_json_from_stream(input, Idle), its input drawn one character
\* at a time: the state inside the loop, after StartStreaming and OnContent.
InitCall ==
    /\ stream = TRUE
    /\ pc = "scan"
    /\ es = [opened |-> TRUE, read |-> 1, closed |-> 0]
    /\ state = Idle
    /\ string_response = << >>
    /\ json_response = None
    /\ completed_json = None
    /\ filtered_delta = << >>
    /\ ret = NoRet
    /\ event = "Content"
    /\ input = << >>
    /\ builder = NewBuilder
    /\ knn = NoSearch

\* One iteration of `for ch in input.chars()`, the call not yet returning.
ParseChar(A, max) ==
    /\ pc = "scan"
    /\ Len(input) < max
    /\ \E ch \in A :
         LET o == StepChar(state, ch)
         IN /\ input' = Append(input, ch)
            /\ state' = o.state
            /\ completed_json' = IF o.completed # None THEN o.completed
                                 ELSE completed_json
            /\ filtered_delta' = filtered_delta \o o.pushed
    /\ UNCHANGED <<knn, builder, stream, pc, es, resultVars, ret, event>>

\* The session in which every character of `chars` arrives as a fragment of
\* its own (then the sentinel): stream_json's loop over those events, which
\* breaks at the first fragment for which the extractor returns Some(json).
RECURSIVE PerCharSession(_, _, _)
PerCharSession(chars, js, antecedent) ==
    IF chars = << >>
    THEN [state |-> js, json |-> None, antecedent |-> antecedent]
    ELSE LET r == ParseJsonFromStream(<<Head(chars)>>, js)
         IN IF r.json # None
            THEN [state |-> r.state, json |-> r.json,
                  antecedent |-> antecedent \o r.filtered]
            ELSE PerCharSession(Tail(chars), r.state, antecedent \o r.filtered)

Returned == pc = "done"
ReturnedOk == pc = "done" /\ ret.kind = "Ok"
ReturnedJson == ReturnedOk /\ ret.json # None
\* The step reads an event of the given kind.
Reads(kind) == es'.read = es.read + 1 /\ event' = kind

\* ------------------------------------------------------------------ C1
\* C1: chunk-invariance of a session.  Whatever the split into fragments,
\* stream_json ends with the extractor state, the json and the antecedent
\* that the split into one-character fragments of the same characters gives.
ChunkInvariance ==
    ReturnedOk =>
        [state |-> state, json |-> ret.json, antecedent |-> ret.antecedent]
            = PerCharSession(input, Idle, << >>)

\* ------------------------------------------------------------------ C2
\* C2: a returned json is the first object that completes in the stream, in
\* character order, whatever follows it in the same fragment.
FirstObjectReturned ==
    ReturnedJson => ret.json = PerCharSession(input, Idle, << >>).json

\* ------------------------------------------------------------------ C3
\* C3: once an object has completed in a call, the machine is never Active
\* again: no later character is scanned for a second object.
NoRescanAfterCompletion ==
    completed_json # None => state.tag # "Active"

\* ------------------------------------------------------------------ C4
\* C4: early cancel on success.  When the call for a Message returns
\* Some(json), stream_json records it, closes the source (the only close of
\* the session), reads nothing more and returns Ok with that json; once it
\* has returned, the source is never read or closed again.
EarlyCancelOnSuccess ==
    [][ /\ (pc = "scan" /\ pc' # "scan" /\ completed_json' # None) =>
            /\ pc' = "done"
            /\ json_response' = completed_json'
            /\ ret' = OkResponse(string_response', completed_json')
            /\ es'.read = es.read
            /\ es'.closed = 1
        /\ Returned => (es' = es /\ ret' = ret /\ pc' = pc) ]_vars

EarlyCancelReached ==
    /\ ReturnedJson
    /\ event = "Content"
    /\ es.closed = 1
    /\ es.read < MaxEvents

\* ------------------------------------------------------------------ C5
\* C5: a Message "[DONE]" ends the session whatever the extractor state: the
\* source is closed, the accumulated result is returned as Ok, and nothing is
\* read afterwards.
SentinelEndsSession ==
    [][ /\ Reads("Done") =>
            /\ pc' = "done"
            /\ es'.closed = es.closed + 1
            /\ ret' = OkResponse(string_response, json_response)
            /\ state' = state
        /\ (Returned /\ event = "Done") => es' = es ]_vars

SentinelWhileCapturing ==
    /\ Returned
    /\ event = "Done"
    /\ state.tag = "Active"
    /\ ret = OkResponse(string_response, None)
    /\ es.closed = 1

\* ------------------------------------------------------------------ C6
\* C6: an Error event, or a payload that does not deserialize, makes
\* stream_json return a failure at once: no antecedent and no json are
\* returned, nothing is read afterwards and nothing is retried.
ErrorAborts ==
    [][ /\ (Reads("Error") \/ Reads("BadPayload")) =>
            /\ pc' = "done"
            /\ ret'.kind = "Err"
            /\ DOMAIN ret' = {"kind", "cause"}
        /\ (Returned /\ event \in {"Error", "BadPayload"}) =>
            (es' = es /\ ret' = ret /\ pc' = pc) ]_vars

ErrorAfterNarration ==
    /\ Returned
    /\ event \in {"Error", "BadPayload"}
    /\ ret.kind = "Err"
    /\ string_response # << >>

\* ------------------------------------------------------------------ C7
\* C7: with the stream flag false, stream_json fails before the source is
\* opened: no event is read and the extractor takes no step.
NotStreamingRejected ==
    ~stream =>
        /\ ~es.opened /\ es.read = 0 /\ es.closed = 0
        /\ input = << >> /\ state = Idle
        /\ pc \in {"start", "done"}
        /\ Returned => ret.kind = "Err"

NotStreamingReturned == ~stream /\ Returned /\ ret.kind = "Err"

\* ----------------------------------------------------------------- C10
\* C10: when an object is captured, the antecedent is the narration that
\* arrived before its opening brace: the text fed to the extractor begins
\* with the antecedent followed by the object.
AntecedentPrecedesObject ==
    ReturnedJson =>
        \E k \in 0..Len(input) :
            SubSeq(input, 1, k) = ret.antecedent \o ret.json[1]

\* ------------------------------------------------------------------ C8
NextFence == ParseChar(FenceAlphabet, MaxFenceInput)
SpecFence == InitCall /\ [][NextFence]_vars

IsBrace(ch) == ch \in {LBrace, RBrace}

\* The width of the run of backticks of s that starts at i (0 when s[i] is
\* no backtick).
RECURSIVE RunLen(_, _)
RunLen(s, i) ==
    IF i > Len(s) \/ s[i] # Tick THEN 0 ELSE 1 + RunLen(s, i + 1)

\* Where a maximal run of backticks starts in s.
RunStart(s, i) == s[i] = Tick /\ (i = 1 \/ s[i - 1] # Tick)

\* The starts, from j on, of the maximal runs of exactly w backticks.
ClosingRuns(s, j, w) ==
    {k \in j..Len(s) : RunStart(s, k) /\ RunLen(s, k) = w}

Least(S) == CHOOSE k \in S : \A m \in S : k <= m

\* Every brace of s from i on lies inside a fenced region: a maximal run of
\* w backticks, a body, and the next maximal run of exactly w backticks (the
\* body may hold runs of other widths).  A run that no later run of its
\* width closes is plain text.  i is outside every region.
RECURSIVE BracesFencedFrom(_, _)
BracesFencedFrom(s, i) ==
    IF i > Len(s) THEN TRUE
    ELSE IF IsBrace(s[i]) THEN FALSE
    ELSE IF s[i] = Tick
    THEN LET w == RunLen(s, i)
             c == ClosingRuns(s, i + w, w)
         IN IF c = {} THEN BracesFencedFrom(s, i + w)
            ELSE BracesFencedFrom(s, Least(c) + w)
    ELSE BracesFencedFrom(s, i + 1)

\* As BracesFencedFrom, and every run of backticks of s from i on opens or
\* closes a region or lies inside one and is narrower than its fence.
RECURSIVE NarrowFencedFrom(_, _)
NarrowFencedFrom(s, i) ==
    IF i > Len(s) THEN TRUE
    ELSE IF IsBrace(s[i]) THEN FALSE
    ELSE IF s[i] = Tick
    THEN LET w == RunLen(s, i)
             c == ClosingRuns(s, i + w, w)
         IN /\ c # {}
            /\ \A k \in (i + w)..(Least(c) - 1) :
                   RunStart(s, k) => RunLen(s, k) < w
            /\ NarrowFencedFrom(s, Least(c) + w)
    ELSE NarrowFencedFrom(s, i + 1)

\* The extractor was never Active on the way through the input, captured
\* nothing, and passed the whole input through.
NeverCaptured ==
    /\ \A k \in 0..Len(input) :
           ParseJsonFromStream(SubSeq(input, 1, k), Idle).state.tag # "Active"
    /\ state.tag # "Active"
    /\ completed_json = None
    /\ filtered_delta = input

\* C8 as stated: if every brace of the input lies inside a region delimited
\* by an opening and a closing backtick run of equal width, the extractor is
\* never Active, json is absent and the antecedent is the whole input.
FencedNeverCaptured == BracesFencedFrom(input, 1) => NeverCaptured

\* C8 amended: the same, for inputs in which moreover every backtick run
\* opens or closes a region or lies inside one and is narrower than its
\* fence.
NarrowFencedNeverCaptured == NarrowFencedFrom(input, 1) => NeverCaptured

FencedBraceSeen ==
    /\ NarrowFencedFrom(input, 1)
    /\ \E i \in 1..Len(input) : input[i] = LBrace
    /\ \E i \in 1..Len(input) : RunStart(input, i) /\ RunLen(input, i) = 2
    /\ state = Idle

\* ------------------------------------------------------------------ C9
NextString == ParseChar(StringAlphabet, MaxStringInput)
SpecString == InitCall /\ [][NextString]_vars

\* The step feeds the character ch to the extractor.
Feeds(ch) == input' = Append(input, ch)

\* C9: while Active inside a string literal, a brace is appended to the
\* buffer, leaves the depth as it is and completes nothing.
StringBracesCaptured ==
    [][ \A ch \in {LBrace, RBrace} :
          (state.tag = "Active" /\ state.in_string /\ Feeds(ch)) =>
              /\ state'.tag = "Active"
              /\ state'.data = Append(state.data, ch)
              /\ state'.num_brackets = state.num_brackets
              /\ state'.in_string
              /\ completed_json' = completed_json ]_vars

\* The object {"}{"} has been captured whole.
StringWithBracesCaptured ==
    /\ input = <<LBrace, Quote, RBrace, LBrace, Quote, RBrace>>
    /\ completed_json = Some(input)
    /\ state = Idle

\* ----------------------------------------------------------------- C11
\* JSON text read by the rules of JSON: braces count outside string
\* literals, a quote opens or closes a literal, and inside a literal a
\* backslash escapes the character after it.  The depth and whether the text
\* ends inside an open literal.
RECURSIVE JsonScan(_, _, _, _, _)
JsonScan(s, i, depth, in_string, escaped) ==
    IF i > Len(s) THEN [depth |-> depth, in_string |-> in_string]
    ELSE IF in_string
    THEN IF escaped THEN JsonScan(s, i + 1, depth, TRUE, FALSE)
         ELSE IF s[i] = Backslash THEN JsonScan(s, i + 1, depth, TRUE, TRUE)
         ELSE IF s[i] = Quote THEN JsonScan(s, i + 1, depth, FALSE, FALSE)
         ELSE JsonScan(s, i + 1, depth, TRUE, FALSE)
    ELSE IF s[i] = LBrace THEN JsonScan(s, i + 1, depth + 1, FALSE, FALSE)
    ELSE IF s[i] = RBrace THEN JsonScan(s, i + 1, depth - 1, FALSE, FALSE)
    ELSE IF s[i] = Quote THEN JsonScan(s, i + 1, depth, TRUE, FALSE)
    ELSE JsonScan(s, i + 1, depth, FALSE, FALSE)

JsonText(s) == JsonScan(s, 1, 0, FALSE, FALSE)

Prefix(s, k) == SubSeq(s, 1, k)
HasChar(s, ch) == \E i \in 1..Len(s) : s[i] = ch

\* s is one brace-balanced object without backslashes: it opens with '{' and
\* its depth comes back to 0 at its last character and not before.
BalancedObject(s) ==
    /\ s # << >> /\ s[1] = LBrace
    /\ ~HasChar(s, Backslash)
    /\ \A k \in 1..(Len(s) - 1) : JsonText(Prefix(s, k)).depth >= 1
    /\ JsonText(s).depth = 0

\* C11: for an input that is one brace-balanced object (nested objects
\* allowed, no backslashes) the extractor completes exactly once, at the
\* final '}' and at no earlier character, and the completed json is the
\* whole input.
NestedObjectCaptured ==
    BalancedObject(input) =>
        /\ completed_json = Some(input)
        /\ state = Idle
        /\ \A k \in 0..(Len(input) - 1) :
               ParseJsonFromStream(Prefix(input, k), Idle).json = None

NestedObjectSeen ==
    /\ input = <<LBrace, LBrace, Letter, RBrace, RBrace>>
    /\ completed_json = Some(input)

\* ----------------------------------------------------------------- C12
\* C12: passthrough identity.  While the session's input holds no '{', the
\* passthrough so far (the antecedent and the running call's filtered text)
\* is the input itself and no json is produced, however the input is split;
\* a returned antecedent is the whole input.
PassthroughIdentity ==
    ~HasChar(input, LBrace) =>
        /\ string_response \o filtered_delta = input
        /\ completed_json = None
        /\ json_response = None
        /\ state.tag # "Active"
        /\ ReturnedOk => (ret.antecedent = input /\ ret.json = None)

PassthroughReturned ==
    /\ ReturnedOk
    /\ ~HasChar(input, LBrace)
    /\ HasChar(input, Tick) /\ HasChar(input, RBrace) /\ HasChar(input, Letter)
    /\ es.read >= 3
    /\ ret.antecedent = input

\* ----------------------------------------------------------------- C13
IsSuffix(t, s) ==
    Len(t) <= Len(s) /\ SubSeq(s, Len(s) - Len(t) + 1, Len(s)) = t

\* C13: escape sequences are kept verbatim.  Once a deferred backslash has
\* been followed by the character it escapes, the buffer is the input text
\* from the opening brace on, and a completed json is the input text from
\* its opening brace to its closing brace, backslashes included.
EscapesPreserved ==
    [][ /\ (state'.tag = "Active" /\ ~state'.escaped) =>
               IsSuffix(state'.data, input')
        /\ (completed_json' # completed_json) =>
               IsSuffix(completed_json'[1], input') ]_vars

\* ----------------------------------------------------------------- C14
\* C14: when the sentinel arrives or the source ends while the extractor is
\* Active or in a fence, stream_json returns Ok with no json, and the
\* antecedent holds none of the captured buffer: the input is the
\* antecedent followed by the buffer (the whole antecedent, in a fence).
UnterminatedCaptureDropped ==
    (Returned /\ event \in {"Done", "End"} /\ state.tag # "Idle") =>
        /\ ret.kind = "Ok"
        /\ ret.json = None
        /\ ret.antecedent = string_response
        /\ IF state.tag = "Active"
           THEN input = ret.antecedent \o state.data
           ELSE input = ret.antecedent

UnterminatedCaptureSeen ==
    /\ Returned /\ event = "Done"
    /\ state.tag = "Active" /\ Len(state.data) >= 2
    /\ ret.antecedent # << >>
    /\ ret.json = None

UnterminatedFenceSeen ==
    /\ Returned /\ event = "End"
    /\ state.tag = "Ignore"
    /\ ret.json = None

\* ----------------------------------------------------------------- C15
streamVars == <<stream, pc, es, state, string_response, json_response,
                completed_json, filtered_delta, ret, event, input>>

\* A setter of the builder, `transform = |n| test_len(n, f, MaxLen(f))`:
\* the panic unwinds the caller, else the value is stored.
SetField(f) ==
    /\ ~builder.panicked /\ ~builder.built
    /\ builder.fields[f] = None
    /\ \E v \in Values(f) :
         LET r == TestLen(v, MaxLen(f))
         IN builder' =
              IF r.panic
              THEN [builder EXCEPT !.panicked = TRUE, !.call = f, !.arg = v]
              ELSE [builder EXCEPT !.fields[f] = Some(r.value),
                                   !.call = f, !.arg = v]
    /\ UNCHANGED <<knn, streamVars>>

SetNameForHuman == SetField("name_for_human")
SetNameForModel == SetField("name_for_model")
SetDescriptionForHuman == SetField("description_for_human")
SetDescriptionForModel == SetField("description_for_model")

\* .build(): every field has been set.
Build ==
    /\ ~builder.panicked /\ ~builder.built
    /\ \A f \in Fields : builder.fields[f] # None
    /\ builder' = [builder EXCEPT !.built = TRUE, !.call = "build"]
    /\ UNCHANGED <<knn, streamVars>>

InitManifest == Init /\ stream = FALSE

NextManifest ==
    \/ SetNameForHuman
    \/ SetNameForModel
    \/ SetDescriptionForHuman
    \/ SetDescriptionForModel
    \/ Build

SpecManifest == InitManifest /\ [][NextManifest]_vars

\* The limits as the claim gives them.
ClaimedLimit(f) ==
    CASE f = "name_for_human" -> 20
      [] f = "name_for_model" -> 50
      [] f = "description_for_human" -> 100
      [] f = "description_for_model" -> 8000

\* C15: a setter called with a value longer (String::len) than the field's
\* limit of 20, 50, 100 or 8000 panics and no Manifest is ever built; called
\* with a value within the limit it stores the value unchanged.
ManifestLimits ==
    [][ /\ \A f \in Fields :
              (builder'.call = f /\ builder' # builder) =>
                  IF ByteLen(builder'.arg) > ClaimedLimit(f)
                  THEN builder'.panicked /\ builder'.fields = builder.fields
                  ELSE /\ ~builder'.panicked
                       /\ builder'.fields[f] = Some(builder'.arg)
        /\ builder.panicked => (builder' = builder) ]_vars

ManifestTooLongSeen ==
    /\ builder.panicked
    /\ builder.call = "name_for_human"
    /\ builder.arg = Str(21, 0)
    /\ builder.fields["description_for_model"] = Some(Str(8000, 0))

\* ----------------------------------------------------------------- C16
\* C16: in every reachable Active state the depth is at least 1, so the
\* decrement on '}' never goes below 0.
DepthPositive == state.tag = "Active" => state.num_brackets >= 1

DepthBackToOne ==
    /\ state.tag = "Active"
    /\ state.num_brackets = 1
    /\ state.data = <<LBrace, LBrace, RBrace>>

\* ----------------------------------------------------------------- C17
\* C17: in every reachable Active state the buffer starts with '{' and,
\* read as JSON text, has the depth and the open-string status that the
\* state records.
BufferConsistent ==
    state.tag = "Active" =>
        /\ state.data # << >> /\ state.data[1] = LBrace
        /\ JsonText(state.data).depth = state.num_brackets
        /\ JsonText(state.data).in_string = state.in_string

\* ----------------------------------------------------------------- C18
IsActive(js) == js.tag = "Active"

\* C18 as stated: escaped is true only right after an unescaped backslash
\* read inside a string literal, and is false after the next character.
EscapedOneStep ==
    [][ /\ (IsActive(state') /\ state'.escaped) =>
               /\ IsActive(state) /\ state.in_string /\ ~state.escaped
               /\ Feeds(Backslash)
        /\ (IsActive(state) /\ state.escaped /\ input' # input) =>
               ~(IsActive(state') /\ state'.escaped) ]_vars

\* C18 amended: inside a string literal, escaped is true only right after
\* an unescaped backslash read inside the literal, and is false after the
\* next character, whatever it is.
EscapedOneStepInString ==
    [][ /\ (IsActive(state') /\ state'.in_string /\ state'.escaped) =>
               /\ IsActive(state) /\ state.in_string /\ ~state.escaped
               /\ Feeds(Backslash)
        /\ (IsActive(state) /\ state.in_string /\ state.escaped
            /\ input' # input) =>
               (IsActive(state') /\ state'.in_string /\ ~state'.escaped) ]_vars

EscapeConsumed ==
    /\ input = <<LBrace, Quote, Backslash, Backslash>>
    /\ IsActive(state) /\ state.in_string /\ ~state.escaped

\* ----------------------------------------------------------------- C19
\* C19: an escaped quote does not end a string.  Active with in_string and
\* escaped, a '"' is appended, leaves in_string true and clears escaped; a
\* '}' after it, still inside the string, leaves the depth as it is and
\* completes nothing.
EscapedQuoteKeepsString ==
    [][ /\ (IsActive(state) /\ state.in_string /\ state.escaped
            /\ Feeds(Quote)) =>
               /\ state' = Active(Append(state.data, Quote),
                                  state.num_brackets, TRUE, FALSE)
               /\ completed_json' = completed_json
        /\ (Len(input) >= 2 /\ input[Len(input)] = Quote
            /\ input[Len(input) - 1] = Backslash
            /\ IsActive(state) /\ state.in_string /\ Feeds(RBrace)) =>
               /\ IsActive(state')
               /\ state'.num_brackets = state.num_brackets
               /\ completed_json' = completed_json ]_vars

BraceAfterEscapedQuote ==
    /\ input = <<LBrace, Quote, Backslash, Quote, RBrace>>
    /\ IsActive(state) /\ state.in_string /\ state.num_brackets = 1
    /\ completed_json = None

\* ----------------------------------------------------------------- C20
NextSplit == ParseChar(SplitAlphabet, MaxSplitInput)
SpecSplit == InitCall /\ [][NextSplit]_vars

\* C20: fragment independence of the extractor.  For every start state st
\* reached on a prefix of the input and every split of the rest into s1 and
\* s2, two calls (s1 from st, then s2 from the state returned) end in the
\* state of the one call on s1 followed by s2, and their passthrough
\* outputs concatenated are the passthrough of the one call.
FragmentIndependence ==
    \A i \in 0..Len(input) : \A j \in i..Len(input) :
        LET st == ParseJsonFromStream(Prefix(input, i), Idle).state
            s1 == SubSeq(input, i + 1, j)
            s2 == SubSeq(input, j + 1, Len(input))
            first == ParseJsonFromStream(s1, st)
            second == ParseJsonFromStream(s2, first.state)
            whole == ParseJsonFromStream(s1 \o s2, st)
        IN /\ second.state = whole.state
           /\ first.filtered \o second.filtered = whole.filtered

SplitInsideClosingFence ==
    /\ input = <<Tick, Tick, Letter, Tick, Tick>>
    /\ state = Idle
    /\ ParseJsonFromStream(Prefix(input, 4), Idle).state = Ignore(2, 1)
    /\ filtered_delta = input

\* ----------------------------------------------------------------- C21
\* The number of consecutive backticks of s that end at position i.
RECURSIVE TicksEndingAt(_, _)
TicksEndingAt(s, i) ==
    IF i < 1 \/ s[i] # Tick THEN 0 ELSE 1 + TicksEndingAt(s, i - 1)

\* C21: fence closing.  Every Ignore state reached has num_ticks >= 1 and
\* 0 <= tick_count < num_ticks.  A character read in Ignore { num_ticks, .. }
\* leads to Idle exactly when it completes a run of num_ticks consecutive
\* backticks of the input; otherwise the machine stays in Ignore with the
\* same num_ticks and tick_count the length of the run of backticks that
\* ends at that character, which is 0 after any other character.
FenceClosing ==
    [][/\ state'.tag = "Ignore" =>
            /\ state'.num_ticks >= 1
            /\ 0 <= state'.tick_count
            /\ state'.tick_count < state'.num_ticks
       /\ (state.tag = "Ignore" /\ input' # input) =>
            LET run == TicksEndingAt(input', Len(input'))
            IN /\ input'[Len(input')] # Tick => run = 0
               /\ IF run = state.num_ticks
                  THEN state' = Idle
                  ELSE state' = Ignore(state.num_ticks, run)]_vars

\* A fence of width 2 whose body holds a lone backtick, then a reset, then
\* the two backticks that close it.
FenceClosedAfterReset ==
    /\ input = <<Tick, Tick, Letter, Tick, Letter, Tick, Tick>>
    /\ ParseJsonFromStream(Prefix(input, 4), Idle).state = Ignore(2, 1)
    /\ ParseJsonFromStream(Prefix(input, 5), Idle).state = Ignore(2, 0)
    /\ ParseJsonFromStream(Prefix(input, 6), Idle).state = Ignore(2, 1)
    /\ state = Idle

\* ----------------------------------------------------------------- C22
\* C22: frame of the events without content.  Reading an Open event, or a
\* Message whose delta has no content fragment, changes neither the extractor
\* state nor the antecedent nor the json; nothing is returned, the source is
\* not closed, and the consumer is back at es.next() for the next event.
NonContentFrame ==
    [][(Reads("Open") \/ Reads("NoContent")) =>
            /\ state' = state
            /\ string_response' = string_response
            /\ json_response' = json_response
            /\ pc' = "next"
            /\ ret' = NoRet
            /\ es'.closed = es.closed]_vars

\* A delta without content read in the middle of a capture, some antecedent
\* already accumulated.
NoContentWhileCapturing ==
    /\ event = "NoContent"
    /\ pc = "next"
    /\ state.tag = "Active"
    /\ string_response # << >>
    /\ es.read >= 2

\* ----------------------------------------------------------------- C23
\* The session under the hypothesis of the claim: the straight-line code
\* runs on (the start of the call, the loop over a fragment's characters),
\* and a consumer waiting at es.next() is eventually handed the sentinel, an
\* error, an undecodable payload or the end of the stream.  Without the last
\* condition the call may wait at es.next() for ever.
SpecFair ==
    /\ Init /\ [][Next]_vars
    /\ WF_vars(StartRejected \/ StartStreaming)
    /\ WF_vars(ScanChar(Alphabet, MaxInput))
    /\ WF_vars(OnDone \/ OnError \/ OnBadPayload \/ OnEnd)

\* The step hands the consumer an event that ends the session: the sentinel,
\* a transport error, a payload that fails to decode, the end of the stream.
EndingEvent ==
    \/ Reads("Done") \/ Reads("Error") \/ Reads("BadPayload")
    \/ (pc = "next" /\ event' = "End")

\* C23: termination of the consumer.  stream_json eventually returns; it
\* returns in the very step that reads the sentinel, an error or the end of
\* the stream, and at the end of the very fragment in which an object was
\* completed, and goes on otherwise; every step reads at most one event, the
\* next one, none while a fragment is being scanned and none after the
\* return.
ConsumerTerminates ==
    /\ <>(pc = "done")
    /\ [][/\ EndingEvent => pc' = "done"
          /\ (pc = "scan" /\ pc' # "scan") =>
                ((completed_json' # None) <=> (pc' = "done"))
          /\ (pc = "next" /\ pc' = "done") => EndingEvent
          /\ es'.read \in {es.read, es.read + 1}
          /\ pc \in {"scan", "done"} => es'.read = es.read]_vars

\* The call returned at the sentinel, the last event the source had, after
\* fragments that completed no object.
ReturnedAtLastEvent ==
    /\ pc = "done"
    /\ event = "Done"
    /\ es.read = MaxEvents
    /\ input # << >>
    /\ ret = OkResponse(string_response, None)

\* ----------------------------------------------------------------- C24
\* knn_search(query, content, k) is called.
KnnCall ==
    /\ knn.status = "idle"
    /\ \E query \in Queries, content \in Contents, k \in 0..MaxK :
         knn' = NewSearch(query, content, k)
    /\ UNCHANGED <<builder, streamVars>>

\* One iteration of `for item in content`: push while the heap holds fewer
\* than k entries; else peek().unwrap(), which panics on the empty heap, and
\* replace the least entry if the item's dot product is strictly larger.
KnnVisit ==
    /\ knn.status = "running"
    /\ knn.next <= Len(knn.content)
    /\ LET item == knn.next
           distance == dot_product(knn.query, knn.content[item])
           entry == EmbeddingDistance(item, distance)
       IN IF Cardinality(knn.heap) < knn.k
          THEN knn' = [knn EXCEPT !.heap = @ \cup {entry}, !.next = @ + 1]
          ELSE IF knn.heap = {}
          THEN knn' = [knn EXCEPT !.status = "panicked"]
          ELSE \E top \in Peek(knn.heap) :
                 IF top.distance < distance
                 THEN knn' = [knn EXCEPT !.heap = (@ \ {top}) \cup {entry},
                                         !.next = @ + 1]
                 ELSE knn' = [knn EXCEPT !.next = @ + 1]
    /\ UNCHANGED <<builder, streamVars>>

\* heap.into_sorted_vec() of Reverse entries, largest distance first (the
\* order among equal distances is the heap's), mapped to (item, distance).
KnnReturn ==
    /\ knn.status = "running"
    /\ knn.next > Len(knn.content)
    /\ \E sorted \in [1..Cardinality(knn.heap) -> knn.heap] :
         /\ \A i, j \in DOMAIN sorted : i < j =>
                /\ sorted[i] # sorted[j]
                /\ sorted[i].distance >= sorted[j].distance
         /\ knn' = [knn EXCEPT
                      !.status = "returned",
                      !.out = [i \in DOMAIN sorted |->
                                 <<sorted[i].item, sorted[i].distance>>]]
    /\ UNCHANGED <<builder, streamVars>>

NextKnn ==
    \/ KnnCall
    \/ KnnVisit
    \/ KnnReturn

\* knn_search on its own: no streaming session runs beside it.
SpecKnn == InitManifest /\ [][NextKnn]_vars

Min(a, b) == IF a <= b THEN a ELSE b

\* The result is the top k of the content: min(k, n) pairs of distinct
\* items of the content, each with its own dot product with the query, from
\* the largest dot product to the smallest, no item left out having a larger
\* dot product than one returned.
IsTopK(out, query, content, k) ==
    LET n == Len(content)
        chosen == {out[i][1] : i \in DOMAIN out}
    IN /\ Len(out) = Min(k, n)
       /\ \A i \in DOMAIN out :
              /\ out[i][1] \in 1..n
              /\ out[i][2] = dot_product(query, content[out[i][1]])
       /\ \A i, j \in DOMAIN out : i < j =>
              /\ out[i][1] # out[j][1]
              /\ out[i][2] >= out[j][2]
       /\ \A j \in (1..n) \ chosen : \A i \in DOMAIN out :
              out[i][2] >= dot_product(query, content[j])

\* C24: for every k >= 0 and every content, knn_search returns (it does not
\* panic), and what it returns is the top k of the content by dot product
\* with the query, largest first.
KnnTopK ==
    /\ knn.status # "panicked"
    /\ knn.status = "returned" =>
           IsTopK(knn.out, knn.query, knn.content, knn.k)

\* What does hold of knn_search: for k >= 1, and for k = 0 on an empty
\* content, it returns the top k.
KnnTopKWhenNoPanic ==
    (knn.k >= 1 \/ knn.content = << >>) =>
        /\ knn.status # "panicked"
        /\ knn.status = "returned" =>
               IsTopK(knn.out, knn.query, knn.content, knn.k)

====
